---- MODULE Spec2Model ----
(***************************************************************************)
(* simple-extract: the download / classify / extract pipeline of           *)
(* src/src/simple_extract/simple_extract.py (the packaged version).        *)
(*                                                                         *)
(* Strings are modelled structurally:                                      *)
(*   - a file name is the sequence of its dot-separated components,        *)
(*     <<"x","tar","gz">> is "x.tar.gz";                                   *)
(*   - a path or URL is a record [scheme, dir, name]: scheme "" is a file  *)
(*     path (dir "" = relative), scheme "http" is a URL whose dir is the   *)
(*     host and whose name is the last segment of its path;                *)
(*   - a command line is its shlex words followed by its path or URL       *)
(*     operands, [words, operands].                                        *)
(* External programs and the remote server are the environment: each       *)
(* launch, exit status and HTTP answer is a nondeterministic choice.       *)
(***************************************************************************)
EXTENDS Integers, Sequences, FiniteSets, TLC

\* ------------------------------------------------------------------ bounds
MaxArgs == 2      \* number of command line arguments
MaxSize == 2      \* largest file size (bytes) the environment produces
MaxHdrLen == 1    \* longest content-length header value (characters)
MaxSuffixes == 3  \* most suffixes of a name handed to strip_suffix alone

\* ------------------------------------------------------------- small helpers
Range(s) == {s[i] : i \in 1..Len(s)}

Last(s) == s[Len(s)]

SeqsUpTo(S, n) == UNION {[1..k -> S] : k \in 0..n}

\* ---------------------------------------------------------------- file names
NameTarGz == <<"x", "tar", "gz">>
NameGz == <<"x", "gz">>
NameRpm == <<"p", "rpm">>
NameZip == <<"z", "zip">>
NameTxt == <<"n", "txt">>

\* a path string
Path(dir, name) == [scheme |-> "", dir |-> dir, name |-> name]

\* a URL string scheme://host/name
Url(host, name) == [scheme |-> "http", dir |-> host, name |-> name]

\* os.path.split: (head, tail)
Split(p) == [head |-> p.dir, tail |-> p.name]

\* ------------------------------------------------------ ArchiveCommand, table
ArchiveCommand(extract_cmd, pipe_cmd, uses_stdin, uses_stdout) ==
    [extract_cmd |-> extract_cmd, pipe_cmd |-> pipe_cmd,
     uses_stdin |-> uses_stdin, uses_stdout |-> uses_stdout]

\* one entry of command_map: the pattern "*.s1. ... .sk" is kept as <<s1,...,sk>>
Entry(pattern, command) == [pattern |-> pattern, command |-> command]

\* the dict of process_commands, in insertion order
command_map ==
    << Entry(<<"tar", "bz2">>, ArchiveCommand(<<"tar", "-xvjf", "-">>, <<>>, TRUE, FALSE)),
       Entry(<<"tbz2">>, ArchiveCommand(<<"tar", "-xvjf", "-">>, <<>>, TRUE, FALSE)),
       Entry(<<"tbz">>, ArchiveCommand(<<"tar", "-xvjf", "-">>, <<>>, TRUE, FALSE)),
       Entry(<<"tar", "gz">>, ArchiveCommand(<<"tar", "-xvzf", "-">>, <<>>, TRUE, FALSE)),
       Entry(<<"tgz">>, ArchiveCommand(<<"tar", "-xvzf", "-">>, <<>>, TRUE, FALSE)),
       Entry(<<"tar", "xz">>, ArchiveCommand(<<"tar", "-xvJf", "-">>, <<>>, TRUE, FALSE)),
       Entry(<<"txz">>, ArchiveCommand(<<"tar", "-xvJf", "-">>, <<>>, TRUE, FALSE)),
       Entry(<<"tar", "lzma">>, ArchiveCommand(<<"tar", "-xvJf", "-">>, <<>>, TRUE, FALSE)),
       Entry(<<"tar", "zst">>, ArchiveCommand(<<"tar", "--zstd", "-xvf", "-">>, <<>>, TRUE, FALSE)),
       Entry(<<"tar">>, ArchiveCommand(<<"tar", "-xvf", "-">>, <<>>, TRUE, FALSE)),
       Entry(<<"rar">>, ArchiveCommand(<<"unrar", "x">>, <<>>, FALSE, FALSE)),
       Entry(<<"lzh">>, ArchiveCommand(<<"lha", "x">>, <<>>, FALSE, FALSE)),
       Entry(<<"7z">>, ArchiveCommand(<<"7z", "x">>, <<>>, FALSE, FALSE)),
       Entry(<<"zip">>, ArchiveCommand(<<"unzip">>, <<>>, FALSE, FALSE)),
       Entry(<<"jar">>, ArchiveCommand(<<"unzip">>, <<>>, FALSE, FALSE)),
       Entry(<<"rpm">>, ArchiveCommand(<<"rpm2cpio", "-">>, <<"cpio", "-idvm">>, FALSE, FALSE)),
       Entry(<<"deb">>, ArchiveCommand(<<"ar", "-x">>, <<>>, FALSE, FALSE)),
       Entry(<<"bz2">>, ArchiveCommand(<<"bzip2", "-d", "-c", "-">>, <<>>, TRUE, TRUE)),
       Entry(<<"gz">>, ArchiveCommand(<<"gzip", "-d", "-c", "-">>, <<>>, TRUE, TRUE)),
       Entry(<<"Z">>, ArchiveCommand(<<"gzip", "-d", "-c", "-">>, <<>>, TRUE, TRUE)),
       Entry(<<"xz">>, ArchiveCommand(<<"xz", "-d", "-c", "-">>, <<>>, TRUE, TRUE)),
       Entry(<<"lzma">>, ArchiveCommand(<<"xz", "-d", "-c", "-">>, <<>>, TRUE, TRUE)),
       Entry(<<"zst">>, ArchiveCommand(<<"zstd", "-d", "-c", "-">>, <<>>, TRUE, TRUE)) >>

\* the tuple valid_suffixes of strip_suffix (".gz" is kept as "gz")
valid_suffixes ==
    {"tbz2", "tbz", "tgz", "txz", "tar", "rar", "lzh", "7z", "zip", "jar",
     "rpm", "deb", "bz2", "gz", "Z", "xz", "lzma", "zst"}

\* --------------------------------------------------------- pathlib, fnmatch
\* PurePath.stem: the name up to its last dot, when that dot is not the first
\* character (a name like ".bashrc" has no suffix)
Stem(name) ==
    IF Len(name) >= 2 /\ ~(Len(name) = 2 /\ name[1] = "")
    THEN SubSeq(name, 1, Len(name) - 1)
    ELSE name

\* PurePath.suffixes: leading dots are stripped, then every component after
\* the first is a suffix
Suffixes(name) ==
    IF name[1] = "" THEN SubSeq(name, 3, Len(name)) ELSE SubSeq(name, 2, Len(name))

\* str.removesuffix("." + suffix)
RemoveSuffix(target, suffix) ==
    IF Len(target) >= 2 /\ Last(target) = suffix
    THEN SubSeq(target, 1, Len(target) - 1)
    ELSE target

\* the for loop of strip_suffix over target_path.suffixes[k..]
RECURSIVE StripLoop(_, _, _)
StripLoop(target, suffixes, k) ==
    IF k > Len(suffixes) THEN target
    ELSE StripLoop(IF suffixes[k] \in valid_suffixes
                   THEN RemoveSuffix(target, suffixes[k])
                   ELSE target,
                   suffixes, k + 1)

\* strip_suffix: a relative path, the directory of the archive is dropped
strip_suffix(archive) == Path("", StripLoop(Stem(archive.name), Suffixes(archive.name), 1))

\* fnmatch of a name against "*.s1. ... .sk": the name ends with ".s1. ... .sk"
FnMatch(name, pattern) ==
    /\ Len(name) >= Len(pattern) + 1
    /\ SubSeq(name, Len(name) - Len(pattern) + 1, Len(name)) = pattern

\* glob does not list names starting with a dot for a pattern starting with *
IsHidden(name) == name[1] = ""

\* ------------------------------------------------------------ the file system
WorkDir == "W"      \* the directory the program is started in
OtherDir == "D"     \* another directory holding archives

\* the disk is a function from the <<directory, name>> of each file that exists
\* to its size; open(p, "w+") and the child writing to it, os.remove(p)
Write(disk, p, n) == [q \in DOMAIN disk \cup {p} |-> IF q = p THEN n ELSE disk[q]]

Remove(disk, p) == [q \in DOMAIN disk \ {p} |-> disk[q]]

NoFile == [exists |-> FALSE, size |-> 0]

File(n) == [exists |-> TRUE, size |-> n]

\* the command line arguments the model draws from
Candidates ==
    { Path("", NameGz), Path(OtherDir, NameTarGz), Path(OtherDir, NameRpm),
      Path("", NameZip), Url("h", NameGz) }

ArgLists == UNION {[1..k -> Candidates] : k \in 0..MaxArgs}

\* one archive per entry of the table, "x" followed by the suffix of the
\* pattern, and a file that is no archive, each as a file of the other
\* directory and as a URL
TableNames ==
    {<<"x">> \o command_map[k].pattern : k \in 1..Len(command_map)} \cup {NameTxt}

TableCandidates ==
    {Path(OtherDir, n) : n \in TableNames} \cup {Url("h", n) : n \in TableNames}

TableArgLists == {<<c>> : c \in TableCandidates}

\* ----------------------------------------------------------------- the state
VARIABLES
    paths,            \* opts["ARCHIVES"]
    no_clobber,       \* opts["no_clobber"]
    force_download,   \* opts["force_download"]
    fs,               \* the files on disk: <<dir, name>> -> size
    cwd,              \* the process working directory
    pc,               \* where main is
    archives,         \* process_archives: archives
    url_archives,     \* process_archives: url_archives
    ui,               \* index of the for loop over url_archives
    fetch,            \* the last call of fetch_archive (its locals and children)
    decision,         \* the call of should_fetch_url that has just returned
    tool_probe,       \* the running / just returned call of command_exists
    fetched,          \* what each call of fetch_archive returned, in order
    glob_files,       \* process_commands: glob_files
    commands,         \* process_commands: commands
    working_dir,      \* process_commands: working_dir
    ci,               \* index of the for loop over archives
    ei,               \* index of the for loop of do_simple_extract
    frame,            \* the running / last call of simple_extract
    runs,             \* what each iteration of do_simple_extract did, in order
    exc               \* the exception that ended the process, "" if none

vars == <<tool_probe, paths, no_clobber, force_download, fs, cwd, pc,
          archives, url_archives, ui, fetch, decision, fetched, working_dir, glob_files,
          commands, ci, ei, frame, runs, exc>>

\* a relative path is resolved against the working directory
Resolve(p) == <<IF p.dir = "" THEN cwd ELSE p.dir, p.name>>

\* os.path.exists
Exists(p) == Resolve(p) \in DOMAIN fs

\* os.path.exists and os.path.getsize together
Stat(p) == IF Exists(p) THEN File(fs[Resolve(p)]) ELSE NoFile

\* os.path.realpath: absolute form; a URL argument becomes a path below ./http:
Realpath(x) ==
    IF x.scheme = "" THEN Path(Resolve(x)[1], x.name) ELSE Path("W/http:", x.name)

\* ------------------------------------------------------------ command_exists
\* the outcomes of subprocess.Popen([path]): started, or OSError with an errno
LaunchOutcomes == {"started", "ENOENT", "EACCES"}

\* no call of command_exists
NoProbe == [launch |-> "", child |-> "", returned |-> FALSE, result |-> FALSE]

\* lines 114-117: Popen([path]) has started the child and the with block is
\* being left, Popen.__exit__ waits for the child
Probing == [launch |-> "started", child |-> "running", returned |-> FALSE, result |-> FALSE]

\* command_exists has returned v; child is what became of the child, if any
Probed(launch, child, v) == [launch |-> launch, child |-> child, returned |-> TRUE, result |-> v]

command_exists(launch) == IF launch = "ENOENT" THEN FALSE ELSE TRUE

\* ---------------------------------------------------------- should_fetch_url
HdrChars == {"1", "2", "x"}

\* the answers to the HEAD request: an error, or headers with or without a
\* content-length
Probes ==
    {[kind |-> k, present |-> FALSE, value |-> <<>>] : k \in {"HTTPError", "URLError", "ok"}}
    \cup {[kind |-> "ok", present |-> TRUE, value |-> v] : v \in SeqsUpTo(HdrChars, MaxHdrLen)}

IsDigit(c) == c \in {"1", "2"}

DigitVal(c) == IF c = "1" THEN 1 ELSE 2

\* int(str): the decimal value, or ValueError
RECURSIVE IntValue(_)
IntValue(str) ==
    IF Len(str) = 0 THEN 0
    ELSE 10 * IntValue(SubSeq(str, 1, Len(str) - 1)) + DigitVal(Last(str))

IntParses(str) == Len(str) > 0 /\ \A i \in 1..Len(str) : IsDigit(str[i])

Returned(v) == [raised |-> "", value |-> v]

Raised(e) == [raised |-> e, value |-> FALSE]

\* a should_fetch_url that looks at the local file before it asks the server
should_fetch_url_LocalFirst(probe, local) ==
    IF ~local.exists THEN Returned(TRUE)
    ELSE IF probe.kind = "HTTPError" THEN Returned(FALSE)
    ELSE IF probe.kind = "URLError" THEN Returned(FALSE)
    ELSE IF ~probe.present \/ probe.value = <<>> THEN Returned(FALSE)
    ELSE IF ~IntParses(probe.value) THEN Raised("ValueError")
    ELSE IF IntValue(probe.value) = local.size THEN Returned(FALSE)
    ELSE Returned(TRUE)

\* should_fetch_url(archive_url, local_archive), given the server's answer and
\* the local file
should_fetch_url(probe, local) ==
    IF probe.kind = "HTTPError" THEN Returned(FALSE)
    ELSE IF probe.kind = "URLError" THEN Returned(FALSE)
    ELSE IF ~probe.present \/ probe.value = <<>> THEN Returned(FALSE)
    ELSE IF ~local.exists THEN Returned(TRUE)
    ELSE IF ~IntParses(probe.value) THEN Raised("ValueError")
    ELSE IF IntValue(probe.value) = local.size THEN Returned(FALSE)
    ELSE Returned(TRUE)

\* ----------------------------------------------------- make_download_command
\* opts["silent_download"]: it only selects the words of the download command;
\* the run is modelled with the default of the option
silent_download == FALSE

DownloadTools == <<"curl", "wget", "fetch">>

DownloadArgs(tool, silent) ==
    IF tool = "curl" THEN (IF silent THEN <<"curl", "-L", "-s", "-o", "-">> ELSE <<"curl", "-L", "-o", "-">>)
    ELSE IF tool = "wget" THEN (IF silent THEN <<"wget", "-q", "-O", "-">> ELSE <<"wget", "-O", "-">>)
    ELSE (IF silent THEN <<"fetch", "-q", "-o", "-">> ELSE <<"fetch", "-o", "-">>)

\* an argument vector: the words of a command template, then paths or URLs
Argv(words, operands) == [words |-> words, operands |-> operands]

None == Argv(<<>>, <<>>)

\* make_download_command(url, silent_download), given the programs found on the
\* host
make_download_command(found, url, silent) ==
    IF \E i \in 1..Len(DownloadTools) : DownloadTools[i] \in found
    THEN LET i == CHOOSE i \in 1..Len(DownloadTools) :
                    /\ DownloadTools[i] \in found
                    /\ \A j \in 1..(i - 1) : DownloadTools[j] \notin found
         IN  Argv(DownloadArgs(DownloadTools[i], silent), <<url>>)
    ELSE None

\* the outcomes of subprocess.run(..., check=True): OSError at launch, or an
\* exit status
RunOutcomes == {"OSError", "exit0", "exit1"}

\* --------------------------------------------------------------------- Init
NoFetch ==
    [url |-> Url("", <<>>), target |-> Path("", <<>>), fetch_cmd |-> None,
     local |-> NoFile, probed |-> FALSE, ran |-> FALSE, status |-> "", result |-> ""]

\* no call of should_fetch_url
NoDecision ==
    [probe |-> [kind |-> "", present |-> FALSE, value |-> <<>>], local |-> NoFile,
     answer |-> [raised |-> "", value |-> FALSE]]

NoFrame ==
    [archive |-> Path("", <<>>), archive_cmd |-> ArchiveCommand(<<>>, <<>>, FALSE, FALSE),
     extract_cmd |-> None, pipe_cmd |-> None, target |-> Path("", <<>>),
     infile |-> FALSE, outfile |-> FALSE,
     primary |-> "", primary_stdin |-> "", primary_stdout |-> "",
     secondary |-> "", secondary_stdin |-> "", result |-> ""]

\* the files the arguments lead to that may or may not be there when the
\* program starts: the local copy of a URL, named as a path or not, and the
\* extraction target of an argument
Optional(args) ==
    UNION { IF args[i].scheme # "" \/ Url("h", args[i].name) \in Range(args)
            THEN { <<WorkDir, args[i].name>>, <<WorkDir, strip_suffix(args[i]).name>> }
            ELSE { <<WorkDir, strip_suffix(args[i]).name>> }
            : i \in 1..Len(args) }

\* the other files named as paths are there
Shelved(args) ==
    {<<IF args[i].dir = "" THEN WorkDir ELSE args[i].dir, args[i].name>> :
        i \in {j \in 1..Len(args) : args[j].scheme = ""}} \ Optional(args)

InitWith(arglists) ==
    /\ paths \in arglists
    /\ no_clobber \in BOOLEAN
    /\ force_download \in BOOLEAN
    /\ \E present \in SUBSET Optional(paths) :
          fs = [p \in present \cup Shelved(paths) |-> 1]
    /\ cwd = WorkDir
    /\ pc = "process_archives"
    /\ archives = <<>>
    /\ url_archives = <<>>
    /\ ui = 1
    /\ fetch = NoFetch
    /\ decision = NoDecision
    /\ tool_probe = NoProbe
    /\ fetched = <<>>
    /\ working_dir = ""
    /\ glob_files = <<>>
    /\ commands = <<>>
    /\ ci = 1
    /\ ei = 1
    /\ frame = NoFrame
    /\ runs = <<>>
    /\ exc = ""

Init == InitWith(ArgLists)

\* ---------------------------------------------------------- process_archives
\* lines 393-400: keep the arguments that exist, collect the URLs
ProcessArchives ==
    /\ pc = "process_archives"
    /\ archives' = SelectSeq([i \in 1..Len(paths) |-> Realpath(paths[i])], Exists)
    /\ url_archives' = SelectSeq(paths, LAMBDA x : x.scheme # "" /\ x.dir # "" /\ x.name # <<>>)
    /\ ui' = 1
    /\ pc' = "resolve"
    /\ UNCHANGED <<tool_probe, paths, no_clobber, force_download, fs, cwd,
                   fetch, decision, fetched, working_dir, glob_files, commands, ci, ei,
                   frame, runs, exc>>

\* ------------------------------------------------------------- fetch_archive
\* the variables fetch_archive and the loop around it never touch
FetchFrame ==
    UNCHANGED <<tool_probe, paths, no_clobber, force_download, cwd,
                url_archives, working_dir, glob_files, commands, ci, ei, frame,
                runs>>

\* a fetch_archive that hands back the target where it should hand back None
FetchNoneAppends(rec, why, newfs) ==
    /\ fetch' = [rec EXCEPT !.result = "None"]
    /\ fetched' = Append(fetched, why)
    /\ fs' = newfs
    /\ archives' = Append(archives, rec.target)
    /\ ui' = ui + 1
    /\ pc' = "resolve"
    /\ UNCHANGED exc

\* fetch_archive returns None (lines 341, 347, 359): the loop continues
FetchNone(rec, why, newfs) ==
    /\ fetch' = [rec EXCEPT !.result = "None"]
    /\ fetched' = Append(fetched, why)
    /\ fs' = newfs
    /\ ui' = ui + 1
    /\ pc' = "resolve"
    /\ UNCHANGED <<archives, exc>>

\* fetch_archive returns target (line 361): the loop appends it (line 409)
FetchTarget(rec, newfs) ==
    /\ fetch' = [rec EXCEPT !.result = "target"]
    /\ fetched' = Append(fetched, "Fetched")
    /\ fs' = newfs
    /\ archives' = Append(archives, rec.target)
    /\ ui' = ui + 1
    /\ pc' = "resolve"
    /\ UNCHANGED exc

\* an exception leaves fetch_archive; nothing up to main catches it
FetchRaise(rec, e, newfs) ==
    /\ fetch' = [rec EXCEPT !.result = "raised"]
    /\ fs' = newfs
    /\ pc' = "crashed"
    /\ exc' = e
    /\ UNCHANGED <<archives, fetched, ui>>

\* a fetch_archive that consults the fetch decision whatever the option says
ConsultsDecisionAlways(force) == TRUE

\* line 344: the fetch decision is consulted unless the download is forced
ConsultsDecision(force) == ~force

\* lines 336-344 of the call made by the loop of lines 401-409: the target,
\* the download command, and whether should_fetch_url is asked
FetchArchive ==
    /\ pc = "resolve"
    /\ ui <= Len(url_archives)
    /\ FetchFrame
    /\ decision' = NoDecision
    /\ \E found \in SUBSET Range(DownloadTools) :
          LET url == url_archives[ui]
              target == Path("", Split(url).tail)
              fetch_cmd == make_download_command(found, url, silent_download)
              rec == [NoFetch EXCEPT !.url = url, !.target = target,
                                     !.fetch_cmd = fetch_cmd,
                                     !.local = Stat(target)]
          IN  IF fetch_cmd = None
              THEN FetchNone(rec, "NoDownloader", fs)
              ELSE /\ fetch' = rec
                   /\ pc' = IF ConsultsDecision(force_download)
                            THEN "should_fetch_url" ELSE "download"
                   /\ UNCHANGED <<fs, archives, fetched, ui, exc>>

\* lines 346-347: should_fetch_url is called and answers
ShouldFetchUrl ==
    /\ pc = "should_fetch_url"
    /\ FetchFrame
    /\ \E probe \in Probes :
          LET answer == should_fetch_url(probe, Stat(fetch.target))
              asked == [fetch EXCEPT !.probed = TRUE]
          IN  /\ decision' = [probe |-> probe, local |-> Stat(fetch.target),
                              answer |-> answer]
              /\ IF answer.raised # ""
                 THEN FetchRaise(asked, answer.raised, fs)
                 ELSE IF ~answer.value
                      THEN FetchNone(asked, "Skipped", fs)
                      ELSE /\ fetch' = asked
                           /\ pc' = "download"
                           /\ UNCHANGED <<fs, archives, fetched, ui, exc>>

\* lines 349-361: the destination is opened for writing and the download
\* command is run; should_fetch_url's frame is gone
Download ==
    /\ pc = "download"
    /\ FetchFrame
    /\ decision' = NoDecision
    /\ \E outcome \in RunOutcomes :
          LET dest == Resolve(fetch.target)
              ran == [fetch EXCEPT !.ran = TRUE, !.status = outcome]
          IN  \/ /\ outcome = "OSError"
                 /\ FetchNone(ran, "DownloadFailed", Remove(fs, dest))
              \/ /\ outcome = "exit0"
                 /\ \E b \in 0..MaxSize : FetchTarget(ran, Write(fs, dest, b))
              \/ /\ outcome = "exit1"
                 /\ \E b \in 0..MaxSize :
                       FetchRaise(ran, "CalledProcessError", Write(fs, dest, b))

\* a process_archives that always returns to main
NothingToDoNever(archs) == FALSE

\* line 411: if not archives
NothingToDo(archs) == archs = <<>>

\* lines 411-416 and process_commands lines 430-432: leave with "nothing to
\* do", or enter classification
ProcessArchivesReturn ==
    /\ pc = "resolve"
    /\ ui > Len(url_archives)
    /\ \/ /\ NothingToDo(archives)
          /\ pc' = "nothing_to_do"
          /\ UNCHANGED <<working_dir, ci>>
       \/ /\ ~NothingToDo(archives)
          /\ pc' = "classify"
          /\ working_dir' = cwd
          /\ ci' = 1
    /\ fetch' = NoFetch
    /\ decision' = NoDecision
    /\ UNCHANGED <<tool_probe, paths, no_clobber, force_download, fs, cwd,
                   archives, url_archives, ui, fetched, glob_files, commands,
                   ei, frame, runs, exc>>

\* ---------------------------------------------------------- process_commands
\* glob.glob("*.s1. ... .sk") in directory dir
Glob(dir, pattern) ==
    {p[2] : p \in {q \in DOMAIN fs : q[1] = dir /\ ~IsHidden(q[2]) /\ FnMatch(q[2], pattern)}}

\* an inner loop that takes every matching pattern, not the first one only
RECURSIVE MatchLoopEveryMatch(_, _, _, _, _)
MatchLoopEveryMatch(archive, dir, k, gf, cmds) ==
    IF k > Len(command_map) THEN [glob_files |-> gf, commands |-> cmds]
    ELSE IF Split(archive).tail \in Glob(dir, command_map[k].pattern)
         THEN MatchLoopEveryMatch(archive, dir, k + 1, Append(gf, archive),
                                  Append(cmds, command_map[k].command))
         ELSE MatchLoopEveryMatch(archive, dir, k + 1, gf, cmds)

\* the inner loop of lines 480-484 from table position k on; gf and cmds are
\* glob_files and commands so far
RECURSIVE MatchLoop(_, _, _, _, _)
MatchLoop(archive, dir, k, gf, cmds) ==
    IF k > Len(command_map) THEN [glob_files |-> gf, commands |-> cmds]
    ELSE IF /\ Split(archive).tail \in Glob(dir, command_map[k].pattern)
            /\ archive \notin Range(gf)
         THEN MatchLoop(archive, dir, k + 1, Append(gf, archive),
                        Append(cmds, command_map[k].command))
         ELSE MatchLoop(archive, dir, k + 1, gf, cmds)

\* one iteration of the loop of lines 473-484
ProcessCommands ==
    /\ pc = "classify"
    /\ ci <= Len(archives)
    /\ LET archive == archives[ci]
           pathname == Split(archive).head
           dir == IF pathname # "" /\ archive \notin Range(url_archives)
                  THEN pathname ELSE cwd
           r == MatchLoop(archive, dir, 1, glob_files, commands)
       IN  /\ cwd' = dir
           /\ glob_files' = r.glob_files
           /\ commands' = r.commands
    /\ ci' = ci + 1
    /\ UNCHANGED <<tool_probe, paths, no_clobber, force_download, fs, pc,
                   archives, url_archives, ui, fetch, decision, fetched, working_dir, ei,
                   frame, runs, exc>>

\* lines 486-490: restore the working directory, return to main
ProcessCommandsReturn ==
    /\ pc = "classify"
    /\ ci > Len(archives)
    /\ cwd' = working_dir
    /\ ei' = 1
    /\ pc' = "extract"
    /\ UNCHANGED <<tool_probe, paths, no_clobber, force_download, fs,
                   archives, url_archives, ui, fetch, decision, fetched, working_dir,
                   glob_files, commands, ci, frame, runs, exc>>

\* --------------------------------------------------------- do_simple_extract
\* what one iteration of the loop of do_simple_extract did
Run(archive, exists, called, result) ==
    [archive |-> archive, exists |-> exists, called |-> called, result |-> result]

\* zip(glob_files, commands) stops at the shorter list
ZipLen == IF Len(glob_files) <= Len(commands) THEN Len(glob_files) ELSE Len(commands)

\* lines 177-187: the locals of simple_extract before it touches anything
Enter(archive, archive_cmd) ==
    [NoFrame EXCEPT
        !.archive = archive,
        !.archive_cmd = archive_cmd,
        !.extract_cmd = IF archive_cmd.uses_stdin \/ archive_cmd.uses_stdout
                        THEN Argv(archive_cmd.extract_cmd, <<>>)
                        ELSE Argv(archive_cmd.extract_cmd, <<archive>>),
        !.pipe_cmd = Argv(archive_cmd.pipe_cmd, <<>>),
        !.target = strip_suffix(archive)]

\* a loop that a missing program ends
AfterSkipEndsLoop == "done"

\* line 511: where do_simple_extract is after the continue of a skipped
\* archive, back at the head of its loop
AfterSkip == "extract"

\* what follows the return of command_exists, lines 506-513: skip the archive
\* or call simple_extract
AfterProbe(exists) ==
    LET archive == glob_files[ei]
        archive_cmd == commands[ei]
    IN  /\ IF ~exists
           THEN /\ runs' = Append(runs, Run(archive, FALSE, FALSE, "NotExtracted"))
                /\ ei' = ei + 1
                /\ pc' = AfterSkip
                /\ UNCHANGED frame
           ELSE /\ frame' = Enter(archive, archive_cmd)
                /\ pc' = "simple_extract"
                /\ UNCHANGED <<runs, ei>>
        /\ UNCHANGED <<paths, no_clobber, force_download, fs, cwd,
                       archives, url_archives, ui, fetch, decision, fetched,
                       working_dir, glob_files, commands, ci, exc>>

\* lines 505-506 and 114-121: the primary program is launched to probe it; a
\* launch that fails makes command_exists return at once, a launch that
\* succeeds leaves it waiting for the child
DoSimpleExtract ==
    /\ pc = "extract"
    /\ ei <= ZipLen
    /\ \E launch \in LaunchOutcomes :
          IF launch = "started"
          THEN /\ tool_probe' = Probing
               /\ pc' = "command_exists"
               /\ UNCHANGED <<paths, no_clobber, force_download, fs, cwd,
                              archives, url_archives, ui, fetch, decision, fetched,
                              working_dir, glob_files, commands, ci, ei, frame,
                              runs, exc>>
          ELSE /\ tool_probe' = Probed(launch, "", command_exists(launch))
               /\ AfterProbe(command_exists(launch))

\* lines 117 and 123: the child has exited, the with block is left and
\* command_exists returns
CommandExistsReturn ==
    /\ pc = "command_exists"
    /\ tool_probe' = Probed(tool_probe.launch, "exited", command_exists(tool_probe.launch))
    /\ AfterProbe(command_exists(tool_probe.launch))

\* line 573 onwards: the loop is over, main runs to its end
Finish ==
    /\ pc = "extract"
    /\ ei > ZipLen
    /\ pc' = "done"
    /\ UNCHANGED <<tool_probe, paths, no_clobber, force_download, fs, cwd,
                   archives, url_archives, ui, fetch, decision, fetched, working_dir,
                   glob_files, commands, ci, ei, frame, runs, exc>>

\* ------------------------------------------------------------ simple_extract
\* the variables simple_extract never touches
ExtractFrame ==
    UNCHANGED <<tool_probe, paths, no_clobber, force_download, cwd,
                archives, url_archives, ui, fetch, decision, fetched, working_dir,
                glob_files, commands, ci>>

\* simple_extract returns: the loop of do_simple_extract goes on
Return(f, result, newfs) ==
    /\ frame' = [f EXCEPT !.result = result, !.infile = FALSE, !.outfile = FALSE]
    /\ runs' = Append(runs, Run(f.archive, TRUE, TRUE, result))
    /\ fs' = newfs
    /\ ei' = ei + 1
    /\ pc' = "extract"
    /\ UNCHANGED exc

\* an exception leaves simple_extract; nothing up to main catches it
Raise(f, e, newfs) ==
    /\ frame' = [f EXCEPT !.result = "raised", !.infile = FALSE, !.outfile = FALSE]
    /\ fs' = newfs
    /\ pc' = "crashed"
    /\ exc' = e
    /\ UNCHANGED <<runs, ei>>

\* a no-clobber test with the option inverted
ClobbersInverted(target_exists, no_clobber_opt) == target_exists /\ ~no_clobber_opt

\* line 191: the no-clobber test
Clobbers(target_exists, no_clobber_opt) == target_exists /\ no_clobber_opt

\* lines 187-196: the no-clobber return, else open the archive
SimpleExtract ==
    /\ pc = "simple_extract"
    /\ tool_probe' = NoProbe
    /\ UNCHANGED <<paths, no_clobber, force_download, cwd,
                   archives, url_archives, ui, fetch, decision, fetched, working_dir,
                   glob_files, commands, ci>>
    /\ IF Clobbers(Exists(frame.target), no_clobber)
       THEN Return(frame, "Skipped", fs)
       ELSE IF ~Exists(frame.archive)
            THEN Raise(frame, "FileNotFoundError", fs)
            ELSE /\ frame' = [frame EXCEPT !.infile = TRUE]
                 /\ pc' = "opened"
                 /\ UNCHANGED <<fs, runs, ei, exc>>

\* the branch of lines 197-236 a plan takes
Mode(f) ==
    IF f.pipe_cmd # None THEN "pipe"
    ELSE IF f.archive_cmd.uses_stdin /\ ~f.archive_cmd.uses_stdout THEN "stdin"
    ELSE IF f.archive_cmd.uses_stdin /\ f.archive_cmd.uses_stdout THEN "stdin_stdout"
    ELSE "plain"

\* what follows subprocess.run(..., check=True) in the three branches without
\* a pipe: OSError is caught and logged, CalledProcessError is not caught
AfterRun(f, outcome, fsCaught, fsElse) ==
    \/ /\ outcome = "OSError"
       /\ Return(f, "Warned", fsCaught)
    \/ /\ outcome = "exit0"
       /\ Return(f, "Extracted", fsElse)
    \/ /\ outcome = "exit1"
       /\ Raise(f, "CalledProcessError", fsElse)

\* lines 198-205: the archive on standard input, the tool writes its files
RunStdin ==
    /\ pc = "opened"
    /\ Mode(frame) = "stdin"
    /\ ExtractFrame
    /\ \E outcome \in RunOutcomes :
          AfterRun([frame EXCEPT !.primary = outcome, !.primary_stdin = "infile",
                                 !.primary_stdout = "inherit"],
                   outcome, fs, fs)

\* lines 207-221: the archive on standard input, target on standard output
RunStdinStdout ==
    /\ pc = "opened"
    /\ Mode(frame) = "stdin_stdout"
    /\ ExtractFrame
    /\ \E outcome \in RunOutcomes, b \in 0..MaxSize :
          LET dest == Resolve(frame.target)
          IN  AfterRun([frame EXCEPT !.primary = outcome, !.primary_stdin = "infile",
                                     !.primary_stdout = "outfile", !.outfile = TRUE],
                       outcome,
                       Remove(fs, dest),
                       Write(fs, dest, b))

\* lines 222-229: the tool opens the archive itself
RunPlain ==
    /\ pc = "opened"
    /\ Mode(frame) = "plain"
    /\ ExtractFrame
    /\ \E outcome \in RunOutcomes :
          AfterRun([frame EXCEPT !.primary = outcome, !.primary_stdin = "inherit",
                                 !.primary_stdout = "inherit"],
                   outcome, fs, fs)

\* line 232: Popen of the primary command, outside any try
PipeOpen ==
    /\ pc = "opened"
    /\ Mode(frame) = "pipe"
    /\ ExtractFrame
    /\ \/ Raise([frame EXCEPT !.primary = "OSError"], "OSError", fs)
       \/ /\ frame' = [frame EXCEPT !.primary = "running", !.primary_stdin = "infile",
                                    !.primary_stdout = "PIPE"]
          /\ pc' = "pipe_run"
          /\ UNCHANGED <<fs, runs, ei, exc>>

\* where simple_extract is once the secondary command has been started:
\* subprocess.run waits for it
AfterSecondaryStarted == "pipe_wait"

\* line 234, first half: subprocess.run starts the secondary command
PipeRun ==
    /\ pc = "pipe_run"
    /\ ExtractFrame
    /\ \/ /\ frame' = [frame EXCEPT !.secondary = "OSError"]
          /\ pc' = "pipe_close"
       \/ /\ frame' = [frame EXCEPT !.secondary = "running",
                                    !.secondary_stdin = "cmd.stdout"]
          /\ pc' = AfterSecondaryStarted
    /\ UNCHANGED <<fs, runs, ei, exc>>

\* line 234, second half: subprocess.run returns when the secondary exits
PipeWait ==
    /\ pc = "pipe_wait"
    /\ ExtractFrame
    /\ \E status \in {"exit0", "exit1"} : frame' = [frame EXCEPT !.secondary = status]
    /\ pc' = "pipe_close"
    /\ UNCHANGED <<fs, runs, ei, exc>>

\* a pipe branch that also fails when the primary command exits non-zero
PipeResultBothExits(primary_status, secondary_status) ==
    IF secondary_status = "OSError" THEN "Warned"
    ELSE IF secondary_status = "exit0" /\ primary_status = "exit0" THEN "Extracted"
    ELSE "raised"

\* how the pipe branch ends, from the two children: check=True looks at the
\* secondary command only
PipeResult(primary_status, secondary_status) ==
    IF secondary_status = "OSError" THEN "Warned"
    ELSE IF secondary_status = "exit0" THEN "Extracted"
    ELSE "raised"

\* lines 232-236, leaving the with block: Popen.__exit__ waits for the primary
\* command, then simple_extract returns or CalledProcessError goes on
PipeClose ==
    /\ pc = "pipe_close"
    /\ ExtractFrame
    /\ \E status \in {"exit0", "exit1"} :
          LET f == [frame EXCEPT !.primary = status]
              result == PipeResult(status, frame.secondary)
          IN  IF result = "raised"
              THEN Raise(f, "CalledProcessError", fs)
              ELSE Return(f, result, fs)

Next ==
    \/ ProcessArchives
    \/ FetchArchive
    \/ ShouldFetchUrl
    \/ Download
    \/ ProcessArchivesReturn
    \/ ProcessCommands
    \/ ProcessCommandsReturn
    \/ DoSimpleExtract
    \/ CommandExistsReturn
    \/ SimpleExtract
    \/ RunStdin
    \/ RunStdinStdout
    \/ RunPlain
    \/ PipeOpen
    \/ PipeRun
    \/ PipeWait
    \/ PipeClose
    \/ Finish

Spec == Init /\ [][Next]_vars

\* strip_suffix alone, on names "foo" followed by up to MaxSuffixes suffixes,
\* recognized or not
StripSuffixes == {"tar", "gz", "zip", "unknownext"}

StripNames == {<<"foo">> \o sfx : sfx \in SeqsUpTo(StripSuffixes, MaxSuffixes)}

InitStrip ==
    /\ paths \in {<<Path("", n)>> : n \in StripNames}
    /\ no_clobber = FALSE
    /\ force_download = FALSE
    /\ fs = [p \in {} |-> 0]
    /\ cwd = WorkDir
    /\ pc = "strip_suffix"
    /\ archives = <<>>
    /\ url_archives = <<>>
    /\ ui = 1
    /\ fetch = NoFetch
    /\ decision = NoDecision
    /\ tool_probe = NoProbe
    /\ fetched = <<>>
    /\ working_dir = ""
    /\ glob_files = <<>>
    /\ commands = <<>>
    /\ ci = 1
    /\ ei = 1
    /\ frame = NoFrame
    /\ runs = <<>>
    /\ exc = ""

\* target = strip_suffix(archive), line 185
StripSuffix ==
    /\ pc = "strip_suffix"
    /\ frame' = [NoFrame EXCEPT !.archive = paths[1], !.target = strip_suffix(paths[1])]
    /\ pc' = "stripped"
    /\ UNCHANGED <<tool_probe, paths, no_clobber, force_download, fs, cwd,
                   archives, url_archives, ui, fetch, decision, fetched, working_dir,
                   glob_files, commands, ci, ei, runs, exc>>

NextStrip == StripSuffix

SpecStrip == InitStrip /\ [][NextStrip]_vars

\* the same program, run on one archive of each format
InitTable == InitWith(TableArgLists)

SpecTable == InitTable /\ [][Next]_vars

\* =================================================================== claims
\* the file a path of the archive set names once main is back in the directory
\* it was started in
FileOf(a) == <<IF a.dir = "" THEN WorkDir ELSE a.dir, a.name>>

\* simple_extract has finished, by return or by an exception
Finished == frame.result # ""

\* an external tool of the last simple_extract call failed
ToolFailed ==
    \/ frame.primary \in {"exit1", "OSError"}
    \/ frame.secondary \in {"exit1", "OSError"}

\* C1: a tool that exits non-zero or cannot be launched is reported and the
\* batch goes on: simple_extract returns, every later archive whose primary
\* tool is there is passed to simple_extract, and the run ends in Done
C1_BatchContinues ==
    /\ (Finished /\ ToolFailed) => (frame.result = "Warned" /\ pc # "crashed")
    /\ pc = "done" =>
          /\ Len(runs) = ZipLen
          /\ \A i \in 1..Len(runs) : runs[i].exists => runs[i].called

\* C2: for a plan reading standard input and writing standard output without
\* a pipe stage, target is bound to the primary's standard output, and when
\* the primary exits non-zero target does not exist once simple_extract is over
C2_NoPartialTarget ==
    (Finished /\ Mode(frame) = "stdin_stdout" /\ frame.primary # "") =>
        /\ frame.primary_stdout = "outfile"
        /\ frame.primary = "exit1" => ~Exists(frame.target)

\* C3: when the download tool exits non-zero or cannot be launched, the
\* destination file does not exist after fetch_archive and the URL yields no
\* archive; a destination file is left only by a download that exited with 0
C3_NoPartialDownload ==
    (fetch.ran /\ fetch.status # "exit0") =>
        /\ ~Exists(fetch.target)
        /\ fetch.result # "target"
        /\ fetch.target \notin Range(archives)

\* the first pattern of the table, in table order, a name matches
Matches(name) == ~IsHidden(name) /\ \E k \in 1..Len(command_map) : FnMatch(name, command_map[k].pattern)

FirstMatch(name) ==
    CHOOSE k \in 1..Len(command_map) :
        /\ FnMatch(name, command_map[k].pattern)
        /\ \A j \in 1..(k - 1) : ~FnMatch(name, command_map[j].pattern)

\* a name ending in .tar.bz2, .tar.gz, .tar.xz, .tar.lzma or .tar.zst
Compound(name) ==
    /\ Len(name) >= 3
    /\ name[Len(name) - 1] = "tar"
    /\ Last(name) \in {"bz2", "gz", "xz", "lzma", "zst"}

\* C4: classification gives an archive whose name matches a pattern exactly
\* one plan, the plan of the first matching pattern in table order; a name with
\* a compound suffix gets the tar plan, never the raw-stream plan; an archive
\* examined in its own directory whose name matches is given a plan
C4_FirstPatternWins ==
    /\ Len(glob_files) = Len(commands)
    /\ \A i, j \in 1..Len(glob_files) : glob_files[i] = glob_files[j] => i = j
    /\ \A i \in 1..Len(glob_files) :
          LET name == glob_files[i].name
          IN  /\ Matches(name)
              /\ commands[i] = command_map[FirstMatch(name)].command
              /\ Compound(name) =>
                    /\ commands[i].extract_cmd[1] = "tar"
                    /\ commands[i].uses_stdin
                    /\ ~commands[i].uses_stdout
    /\ pc = "classify" =>
          \A i \in 1..(ci - 1) :
              (archives[i].dir # "" /\ Exists(archives[i]) /\ Matches(archives[i].name))
                  => archives[i] \in Range(glob_files)

\* C4 witness: x.tar.bz2 has been classified and has the tar plan
C4_Witness ==
    \E i \in 1..Len(glob_files) :
        /\ i <= Len(commands)
        /\ glob_files[i].name = <<"x", "tar", "bz2">>
        /\ commands[i].extract_cmd = <<"tar", "-xvjf", "-">>

\* C5: for a plan with a pipe stage the primary command has the archive on
\* standard input and a pipe on standard output, the secondary command reads
\* that pipe, simple_extract is not over before the secondary command has
\* terminated, and it succeeds or fails by the exit status of the secondary
\* command alone
C5_PipeGatedOnSecondary ==
    /\ frame.secondary # "" =>
          /\ frame.primary # ""
          /\ frame.primary_stdin = "infile"
          /\ frame.primary_stdout = "PIPE"
    /\ frame.secondary \in {"running", "exit0", "exit1"} =>
          frame.secondary_stdin = "cmd.stdout"
    /\ (Finished /\ Mode(frame) = "pipe" /\ frame.primary # "OSError" /\ frame.result # "Skipped") =>
          /\ frame.secondary \in {"exit0", "exit1", "OSError"}
          /\ frame.secondary = "exit0" <=> frame.result = "Extracted"
          /\ frame.secondary = "exit1" <=> frame.result = "raised"

\* C5 witness: the primary command failed, the secondary succeeded, and the
\* extraction counts as done
C5_Witness ==
    /\ Mode(frame) = "pipe"
    /\ frame.primary = "exit1"
    /\ frame.secondary = "exit0"
    /\ frame.result = "Extracted"

\* C6: called with no_clobber when the target exists, simple_extract returns
\* without opening the archive, starting a command, or creating, truncating or
\* deleting a file
C6_NoClobberTouchesNothing ==
    [][(pc = "simple_extract" /\ no_clobber /\ Exists(frame.target)) =>
          /\ fs' = fs
          /\ pc' = "extract"
          /\ frame'.result = "Skipped"
          /\ ~frame'.infile
          /\ ~frame'.outfile
          /\ frame'.primary = ""
          /\ frame'.secondary = ""]_vars

\* C6 witness: an extraction has been skipped because its target was there
C6_Witness ==
    /\ no_clobber
    /\ frame.result = "Skipped"
    /\ Exists(frame.target)
    /\ Len(runs) >= 1
    /\ Last(runs).result = "Skipped"

\* the answer of should_fetch_url in the last fetch_archive call
Answered(v) == decision.answer.raised = "" /\ decision.answer.value = v

\* should_fetch_url has just returned or raised
Asked == decision # NoDecision

C8_SizeDecision ==
    (Asked /\ decision.local.exists) =>
        Answered(/\ decision.probe.kind = "ok"
                 /\ decision.probe.present
                 /\ IntParses(decision.probe.value)
                 /\ IntValue(decision.probe.value) # fetch.local.size)

\* the last fetch_archive call was told to skip
ToldToSkip == Asked /\ Answered(FALSE)

\* the URLs for which fetch_archive gave a file, as the targets it returned
FetchedTargets ==
    LET sel == SelectSeq([k \in 1..Len(fetched) |-> k], LAMBDA k : fetched[k] = "Fetched")
    IN  [j \in 1..Len(sel) |-> Path("", Split(url_archives[sel[j]]).tail)]

\* C9 as stated: a reference that was skipped, or whose download failed, is not
\* downloaded, and its local file is never classified or extracted in the run
C9_SkippedNeverExtracted ==
    /\ ToldToSkip => ~fetch.ran
    /\ \A k \in 1..Len(fetched) :
          fetched[k] \in {"Skipped", "DownloadFailed"} =>
              /\ \A i \in 1..Len(glob_files) :
                    FileOf(glob_files[i]) # <<WorkDir, url_archives[k].name>>
              /\ \A i \in 1..Len(runs) :
                    FileOf(runs[i].archive) # <<WorkDir, url_archives[k].name>>

\* C9 amended: a reference that was skipped, or whose download failed, is not
\* downloaded and adds nothing to the archive set: the entries fetch_archive
\* added are exactly the targets of the downloads that succeeded, and only
\* entries of the archive set are classified and extracted
C9_SkippedAddsNothing ==
    /\ ToldToSkip => (~fetch.ran /\ fetch.result = "None")
    /\ SelectSeq(archives, LAMBDA a : a.dir = "") = FetchedTargets
    /\ Range(glob_files) \subseteq Range(archives)
    /\ \A i \in 1..Len(runs) : runs[i].archive \in Range(glob_files)

\* C9 witness: a reference was skipped and the run went on to extract
C9_Witness ==
    /\ "Skipped" \in Range(fetched)
    /\ glob_files # <<>>
    /\ pc = "done"

\* C10: with force_download and a download tool, fetch_archive never asks
\* should_fetch_url and always runs the download tool
C10_ForceAlwaysDownloads ==
    (force_download /\ fetch.result # "" /\ fetch.fetch_cmd # None) =>
        (~fetch.probed /\ fetch.ran)

\* C10 witness: a forced download ran over a local copy that was there
C10_Witness ==
    /\ force_download
    /\ fetch.local.exists
    /\ fetch.ran
    /\ fetch.result = "target"

\* the step do_simple_extract takes for archive i of the plan: a skip, or the
\* call of simple_extract
SkipStep == pc = "extract" /\ ei <= ZipLen /\ Len(runs') = Len(runs) + 1

CallStep == pc \in {"extract", "command_exists"} /\ pc' = "simple_extract"

\* every iteration so far is recorded, in plan order, and simple_extract was
\* called exactly for the archives whose primary program was found
LoopInOrder ==
    /\ Len(runs) <= ZipLen
    /\ pc = "extract" => Len(runs) = ei - 1
    /\ pc = "done" => Len(runs) = ZipLen
    /\ \A k \in 1..Len(runs) :
          /\ runs[k].archive = glob_files[k]
          /\ runs[k].called <=> runs[k].exists

\* C11: an archive whose primary program command_exists reports missing is
\* never passed to simple_extract and no file is opened or created for it,
\* and the loop goes on: every other archive whose primary program is there
\* is passed to simple_extract, in plan order
C11_MissingToolSkipsOne ==
    /\ []LoopInOrder
    /\ [][/\ SkipStep =>
              /\ ~Last(runs').exists /\ ~Last(runs').called
              /\ fs' = fs /\ frame' = frame
              /\ pc' = "extract" /\ ei' = ei + 1
          /\ CallStep =>
              /\ frame'.archive = glob_files[ei]
              /\ ~frame'.infile /\ ~frame'.outfile
              /\ fs' = fs /\ ei' = ei]_vars

\* C11 witness: the first archive of a batch was skipped for its missing
\* program and the second was passed to simple_extract and extracted
C11_Witness ==
    /\ pc = "done"
    /\ Len(runs) = 2
    /\ ~runs[1].exists /\ ~runs[1].called
    /\ runs[2].called /\ runs[2].result = "Extracted"

\* a name without its trailing recognized suffixes: the last suffix is taken
\* off while it is recognized
RECURSIVE TrailingStripped(_)
TrailingStripped(name) ==
    IF Len(name) >= 2 /\ Last(name) \in valid_suffixes
    THEN TrailingStripped(SubSeq(name, 1, Len(name) - 1))
    ELSE name

\* C12: strip_suffix removes every trailing recognized suffix, from the
\* outermost inward, and stops at the first suffix that is not recognized: a
\* name whose last suffix is not recognized comes back unchanged
C12_StripsTrailingRecognized ==
    pc = "stripped" => frame.target.name = TrailingStripped(frame.archive.name)

\* main is past process_archives
Classifying ==
    pc \in {"classify", "extract", "command_exists", "simple_extract", "opened", "pipe_run",
            "pipe_wait", "pipe_close", "done"}

\* nothing of classification or extraction has happened
NothingExtracted ==
    /\ glob_files = <<>> /\ commands = <<>> /\ ci = 1
    /\ runs = <<>> /\ frame = NoFrame /\ ei = 1

\* C13: when the archive set is empty after the paths were filtered and the
\* URLs resolved, the process exits with code 0 before classification: no
\* extraction tool is probed and no extraction command is run, then or later
C13_EmptySetExitsEarly ==
    /\ [](pc = "nothing_to_do" => (archives = <<>> /\ exc = "" /\ NothingExtracted))
    /\ [](Classifying => archives # <<>>)
    /\ [][/\ (pc = "resolve" /\ ui > Len(url_archives) /\ archives = <<>>) =>
                 pc' = "nothing_to_do"
          /\ pc # "nothing_to_do"]_vars

\* C13 witness: two arguments, a path that is not there and a URL whose
\* download could not be launched, left the archive set empty
C13_Witness ==
    /\ pc = "nothing_to_do"
    /\ Len(paths) = 2
    /\ paths[1].scheme = ""
    /\ "DownloadFailed" \in Range(fetched)

\* the flags (reads stdin, writes stdout, pipe) the plan table of the
\* specification gives for a pattern
TableFlags(pattern) ==
    IF pattern = <<"rpm">> THEN <<TRUE, FALSE, TRUE>>
    ELSE IF pattern[1] \in {"tar", "tbz2", "tbz", "tgz", "txz"} THEN <<TRUE, FALSE, FALSE>>
    ELSE IF pattern[1] \in {"rar", "lzh", "7z", "zip", "jar", "deb"} THEN <<FALSE, FALSE, FALSE>>
    ELSE <<TRUE, TRUE, FALSE>>

\* the flags of a plan
Flags(command) == <<command.uses_stdin, command.uses_stdout, command.pipe_cmd # <<>> >>

\* C14: every plan taken from the table that has a pipe command reads its
\* standard input, and every plan has the flags the table of the
\* specification gives for the pattern it was taken for; the *.rpm plan
\* reads standard input
C14_PipePlansReadStdin ==
    \A i \in 1..ZipLen :
        /\ commands[i].pipe_cmd # <<>> => commands[i].uses_stdin
        /\ Flags(commands[i]) =
              TableFlags(command_map[FirstMatch(glob_files[i].name)].pattern)

\* the plan of the running simple_extract has no pipe stage and neither flag
SelfManaged(f) ==
    /\ f.archive_cmd.pipe_cmd = <<>>
    /\ ~f.archive_cmd.uses_stdin
    /\ ~f.archive_cmd.uses_stdout

\* C15: the archive path is the final argument of the primary command only
\* for a plan with no pipe stage and neither flag; for every other plan the
\* primary command runs with exactly the words of its template and gets the
\* archive on its standard input only
C15_ArchiveArgumentOnlyWhenSelfManaged ==
    frame.primary \in {"running", "exit0", "exit1"} =>
        /\ frame.extract_cmd.words = frame.archive_cmd.extract_cmd
        /\ IF SelfManaged(frame)
           THEN frame.extract_cmd.operands = <<frame.archive>>
           ELSE /\ frame.extract_cmd.operands = <<>>
                /\ frame.primary_stdin = "infile"

\* process_commands has just returned to main
Classified == pc = "extract" /\ ei = 1 /\ frame = NoFrame

\* C16: an archive of the archive set is dropped at classification only if
\* its name matches no pattern of the table: every local archive that exists
\* and every fetched archive with a recognized extension is planned, whatever
\* precedes it in the batch, and the working directory after process_commands
\* is the one at its entry
C16_OnlyUnmatchedDropped ==
    Classified =>
        /\ \A i \in 1..Len(archives) :
              (Matches(archives[i].name) /\ FileOf(archives[i]) \in DOMAIN fs) =>
                  archives[i] \in Range(glob_files)
        /\ cwd = WorkDir

\* C17: the list of archives to extract names no archive twice and is
\* aligned with the list of plans, same length and plan i the plan chosen
\* for archive i; hence no archive is passed to simple_extract twice in a run
C17_PlannedOnce ==
    /\ Len(glob_files) = Len(commands)
    /\ \A i \in 1..Len(glob_files) :
          commands[i] = command_map[FirstMatch(glob_files[i].name)].command
    /\ \A i, j \in 1..Len(glob_files) :
          i # j => FileOf(glob_files[i]) # FileOf(glob_files[j])
    /\ \A i, j \in 1..Len(runs) :
          (i # j /\ runs[i].called /\ runs[j].called) =>
              FileOf(runs[i].archive) # FileOf(runs[j].archive)

\* C18: command_exists starts the program and returns without waiting for
\* the child to terminate, so no call of it is ever left waiting on a running
\* child; it returns false exactly when the launch failed with ENOENT, true
\* for a launch that succeeded or failed otherwise
C18_ProbeDoesNotWait ==
    /\ tool_probe.child = "running" => tool_probe.returned
    /\ tool_probe.returned => (tool_probe.result <=> tool_probe.launch # "ENOENT")

====
